---- MODULE Spec2Model ----
(***************************************************************************)
(* In-memory CRUD microservice (src/main.py): the four resource tables     *)
(* persons, addresses, products and orders, and the request handlers that  *)
(* read and write them.  Every handler runs to completion as one action.   *)
(***************************************************************************)
EXTENDS Integers, Sequences, FiniteSets, TLC

\* ------------------------------------------------------------------ bounds
MaxSteps == 4         \* requests and clock ticks in one behaviour
MaxStock == 2         \* largest stock_quantity a product payload carries

\* ------------------------------------------------------------ value sets
\* Python's None, for the Optional[str] fields that may hold it.
None == "None"

\* uuid4() never repeats an id: each table counts its ids up from 1, and 0 is a
\* UUID that no table ever holds.
NoSuchId == 0

\* The ids a caller picks for its addresses.
AddressIds == {1, 2}

\* The values the payloads draw their fields from.
SKUs == {"SKU-1", "SKU-2"}
Stocks == 0..MaxStock
Quantities == {1, 2}
OrderNumbers == {"ORD-20250913-0001", "ORD-20250913-0002"}
OrderStatus == {"pending", "confirmed", "processing", "shipped", "delivered", "cancelled"}
UNIs == {None, "abc1234"}

VARIABLES
    persons,     \* Dict[UUID, PersonRead]
    addresses,   \* Dict[UUID, AddressRead]
    addressKeys, \* list(addresses): the caller's ids in the order the dict took them
    products,    \* Dict[UUID, ProductRead]
    orders,      \* Dict[UUID, OrderRead]
    nextProduct, \* the id the next uuid4() of a ProductRead returns
    nextPerson,  \* the id the next uuid4() of a PersonRead returns
    nextOrder,   \* the id the next uuid4() of an OrderRead returns
    now,         \* datetime.utcnow()
    steps,       \* requests and clock ticks so far
    req,         \* the last request: its handler, path id and body
    resp,        \* the response to it
    threads      \* the worker threads: what each is handling, and how far it is

vars == <<persons, addresses, addressKeys, products, orders, nextProduct, nextPerson, nextOrder, now, steps, req, resp, threads>>
tables == <<persons, addresses, addressKeys, products, orders>>

\* A dict as a function on its key set.
EmptyDict == <<>>
Put(d, k, v) == [x \in (DOMAIN d) \cup {k} |-> IF x = k THEN v ELSE d[x]]
\* A del that empties the dict.
DelAll(d, k) == EmptyDict

\* del d[k]
Del(d, k) == [x \in (DOMAIN d) \ {k} |-> d[x]]

\* A merge that loses the patch.
DictUpdateDropsPatch(stored, vals) == stored

\* dict.update(patch.model_dump(exclude_unset=True)): the fields the patch sets
\* overwrite the stored ones, the others stay.
DictUpdate(stored, vals) == [f \in DOMAIN stored |-> IF f \in DOMAIN vals THEN vals[f] ELSE stored[f]]

\* The worker threads that run the handlers of concurrent requests.
Threads == {1, 2}

\* A thread between its handler's last check and its write of the table: the
\* request it handles, and the number of entities the table held at the check.
Handling(op, id, body, seen) == [pc |-> "store", op |-> op, id |-> id, body |-> body, seen |-> seen]

\* A thread that handles no request, and one that has answered its request.
Idle == [pc |-> "idle", op |-> "none", id |-> 0, body |-> <<>>, seen |-> 0]
Answered(thread) == [thread EXCEPT !.pc = "idle"]

\* A request as its handler receives it.
Request(op, id, body) == [op |-> op, id |-> id, body |-> body]

\* The HTTP response of a handler: msg and arg are the HTTPException's detail or
\* the confirmation message, and arg is the body a create, get or list returns.
Response(op, status, id, msg, arg) == [op |-> op, status |-> status, id |-> id, msg |-> msg, arg |-> arg]

\* ---------------------------------------------------------------- products
ProductFields == {"name", "description", "sku", "category", "price", "stock_quantity", "is_active"}
\* The fields ProductRead declares without Optional: None fails their validation.
ProductRequired == ProductFields \ {"description"}

\* ProductRead(**product.model_dump()): the payload's fields, a fresh id, and the
\* clock read by the default factories of created_at and updated_at.
ProductRead(product, id, created, updated) ==
    [id |-> id,
     name |-> product.name,
     description |-> product.description,
     sku |-> product.sku,
     category |-> product.category,
     price |-> product.price,
     stock_quantity |-> product.stock_quantity,
     is_active |-> product.is_active,
     created_at |-> created,
     updated_at |-> updated]

\* for existing_product in products.values(): if existing_product.sku == sku
SkuTaken(sku) == \E pid \in DOMAIN products : products[pid].sku = sku

\* The exclusion of the target inverted: only the target itself is compared.
SkuTakenByOtherInverted(product_id, sku) ==
    \E pid \in DOMAIN products : pid = product_id /\ products[pid].sku = sku

\* The exclusion of the target left out: the target's own sku collides too.
SkuTakenByAny(product_id, sku) ==
    \E pid \in DOMAIN products : products[pid].sku = sku

\* for pid, existing_product in products.items():
\*     if pid != product_id and existing_product.sku == update.sku
SkuTakenByOther(product_id, sku) ==
    \E pid \in DOMAIN products : pid # product_id /\ products[pid].sku = sku

\* POST /products
CreateProduct(product) ==
    /\ steps < MaxSteps
    /\ steps' = steps + 1
    /\ req' = Request("create_product", NoSuchId, product)
    /\ IF SkuTaken(product.sku)
       THEN /\ resp' = Response("create_product", 400, NoSuchId, "Product with this SKU already exists", "")
            /\ UNCHANGED <<products, nextProduct>>
       ELSE /\ products' = Put(products, nextProduct, ProductRead(product, nextProduct, now, now))
            /\ nextProduct' = nextProduct + 1
            /\ resp' = Response("create_product", 201, nextProduct, "", ProductRead(product, nextProduct, now, now))
    /\ UNCHANGED <<persons, addresses, addressKeys, orders, nextPerson, nextOrder, now, threads>>

\* update.sku, which is None when the patch leaves sku unset or sets it to null.
PatchHas(update, f) == f \in DOMAIN update.vals

\* update_product that merges the other fields into the stored product before
\* it checks the sku.
UpdateProductPartial(product_id, update) ==
    /\ steps < MaxSteps
    /\ steps' = steps + 1
    /\ req' = Request("update_product", product_id, update)
    /\ IF product_id \notin DOMAIN products
       THEN /\ resp' = Response("update_product", 404, NoSuchId, "Product not found", "")
            /\ UNCHANGED products
       ELSE IF PatchHas(update, "sku") /\ SkuTakenByOther(product_id, update.vals.sku)
       THEN /\ resp' = Response("update_product", 400, NoSuchId, "Product with this SKU already exists", "")
            /\ products' = [products EXCEPT ![product_id] =
                              DictUpdate(@, [f \in DOMAIN update.vals \ {"sku"} |-> update.vals[f]])]
       ELSE IF update.nulls \cap ProductRequired # {}
       THEN /\ resp' = Response("update_product", 500, NoSuchId, "Internal Server Error", "")
            /\ UNCHANGED products
       ELSE /\ products' = [products EXCEPT ![product_id] =
                              [DictUpdate(DictUpdate(@, update.vals), [f \in update.nulls |-> None])
                                 EXCEPT !.updated_at = now]]
            /\ resp' = Response("update_product", 200, NoSuchId, "", "")
    /\ UNCHANGED <<persons, addresses, addressKeys, orders, nextProduct, nextPerson, nextOrder, now, threads>>

\* PATCH /products/{product_id}
\* update.vals are the fields the patch sets to a value, update.nulls the fields
\* it sets to null; both are in model_dump(exclude_unset=True).  A null is
\* stored as None in an Optional field and fails validation in any other.
UpdateProduct(product_id, update) ==
    /\ steps < MaxSteps
    /\ steps' = steps + 1
    /\ req' = Request("update_product", product_id, update)
    /\ IF product_id \notin DOMAIN products
       THEN /\ resp' = Response("update_product", 404, NoSuchId, "Product not found", "")
            /\ UNCHANGED products
       ELSE IF PatchHas(update, "sku") /\ SkuTakenByOther(product_id, update.vals.sku)
       THEN /\ resp' = Response("update_product", 400, NoSuchId, "Product with this SKU already exists", "")
            /\ UNCHANGED products
       ELSE IF update.nulls \cap ProductRequired # {}
       THEN \* ProductRead(**stored) raises a ValidationError nobody catches
            /\ resp' = Response("update_product", 500, NoSuchId, "Internal Server Error", "")
            /\ UNCHANGED products
       ELSE /\ products' = [products EXCEPT ![product_id] =
                              [DictUpdate(DictUpdate(@, update.vals), [f \in update.nulls |-> None])
                                 EXCEPT !.updated_at = now]]
            /\ resp' = Response("update_product", 200, NoSuchId, "", "")
    /\ UNCHANGED <<persons, addresses, addressKeys, orders, nextProduct, nextPerson, nextOrder, now, threads>>

\* get_product that takes the product out of the table as it returns it.
GetProductPops(product_id) ==
    /\ steps < MaxSteps
    /\ steps' = steps + 1
    /\ req' = Request("get_product", product_id, <<>>)
    /\ IF product_id \notin DOMAIN products
       THEN resp' = Response("get_product", 404, NoSuchId, "Product not found", "") /\ UNCHANGED products
       ELSE resp' = Response("get_product", 200, product_id, "", products[product_id])
            /\ products' = Del(products, product_id)
    /\ UNCHANGED <<persons, addresses, addressKeys, orders, nextProduct, nextPerson, nextOrder, now, threads>>

\* GET /products/{product_id}
GetProduct(product_id) ==
    /\ steps < MaxSteps
    /\ steps' = steps + 1
    /\ req' = Request("get_product", product_id, <<>>)
    /\ IF product_id \notin DOMAIN products
       THEN resp' = Response("get_product", 404, NoSuchId, "Product not found", "")
       ELSE resp' = Response("get_product", 200, product_id, "", products[product_id])
    /\ UNCHANGED <<persons, addresses, addressKeys, products, orders, nextProduct, nextPerson, nextOrder, now, threads>>

\* delete_product that also deletes the orders with an item of the product.
DeleteProductCascades(product_id) ==
    /\ steps < MaxSteps
    /\ steps' = steps + 1
    /\ req' = Request("delete_product", product_id, <<>>)
    /\ IF product_id \notin DOMAIN products
       THEN /\ resp' = Response("delete_product", 404, NoSuchId, "Product not found", "")
            /\ UNCHANGED <<products, orders>>
       ELSE /\ products' = Del(products, product_id)
            /\ orders' = [o \in {k \in DOMAIN orders :
                                   \A i \in 1..Len(orders[k].items) : orders[k].items[i].product_id # product_id}
                            |-> orders[o]]
            /\ resp' = Response("delete_product", 200, NoSuchId, "Product deleted successfully", "")
    /\ UNCHANGED <<persons, addresses, addressKeys, nextProduct, nextPerson, nextOrder, now, threads>>

\* A delete that keeps the product and marks it inactive.
DeleteProductSoft(product_id) ==
    /\ steps < MaxSteps
    /\ steps' = steps + 1
    /\ req' = Request("delete_product", product_id, <<>>)
    /\ IF product_id \notin DOMAIN products
       THEN /\ resp' = Response("delete_product", 404, NoSuchId, "Product not found", "")
            /\ UNCHANGED products
       ELSE /\ products' = [products EXCEPT ![product_id].is_active = FALSE]
            /\ resp' = Response("delete_product", 200, NoSuchId, "Product deleted successfully", "")
    /\ UNCHANGED <<persons, addresses, addressKeys, orders, nextProduct, nextPerson, nextOrder, now, threads>>

\* DELETE /products/{product_id}
DeleteProduct(product_id) ==
    /\ steps < MaxSteps
    /\ steps' = steps + 1
    /\ req' = Request("delete_product", product_id, <<>>)
    /\ IF product_id \notin DOMAIN products
       THEN /\ resp' = Response("delete_product", 404, NoSuchId, "Product not found", "")
            /\ UNCHANGED products
       ELSE /\ products' = Del(products, product_id)
            /\ resp' = Response("delete_product", 200, NoSuchId, "Product deleted successfully", "")
    /\ UNCHANGED <<persons, addresses, addressKeys, orders, nextProduct, nextPerson, nextOrder, now, threads>>

\* ----------------------------------------------------------------- persons
\* PersonRead(**person.model_dump()): the payload's fields, a fresh id and the
\* two timestamps every entity carries.
PersonRead(person, id, created, updated) ==
    [id |-> id,
     uni |-> person.uni,
     first_name |-> person.first_name,
     addresses |-> person.addresses,
     created_at |-> created,
     updated_at |-> updated]

\* POST /persons
CreatePerson(person) ==
    /\ steps < MaxSteps
    /\ steps' = steps + 1
    /\ req' = Request("create_person", NoSuchId, person)
    /\ persons' = Put(persons, nextPerson, PersonRead(person, nextPerson, now, now))
    /\ nextPerson' = nextPerson + 1
    /\ resp' = Response("create_person", 201, nextPerson, "", PersonRead(person, nextPerson, now, now))
    /\ UNCHANGED <<addresses, addressKeys, products, orders, nextProduct, nextOrder, now, threads>>

\* PATCH /persons/{person_id}
UpdatePerson(person_id, update) ==
    /\ steps < MaxSteps
    /\ steps' = steps + 1
    /\ req' = Request("update_person", person_id, update)
    /\ IF person_id \notin DOMAIN persons
       THEN /\ resp' = Response("update_person", 404, NoSuchId, "Person not found", "")
            /\ UNCHANGED persons
       ELSE /\ persons' = [persons EXCEPT ![person_id] = DictUpdate(@, update.vals)]
            /\ resp' = Response("update_person", 200, NoSuchId, "", "")
    /\ UNCHANGED <<addresses, addressKeys, products, orders, nextProduct, nextPerson, nextOrder, now, threads>>

\* A DELETE /persons/{person_id} route that removes the person.
DeletePersonRemoves(person_id) ==
    /\ steps < MaxSteps
    /\ steps' = steps + 1
    /\ req' = Request("delete_person", person_id, <<>>)
    /\ IF person_id \notin DOMAIN persons
       THEN /\ resp' = Response("delete_person", 404, NoSuchId, "Person not found", "")
            /\ UNCHANGED persons
       ELSE /\ persons' = Del(persons, person_id)
            /\ resp' = Response("delete_person", 200, NoSuchId, "", "")
    /\ UNCHANGED <<addresses, addressKeys, products, orders, nextProduct, nextPerson, nextOrder, now, threads>>

\* DELETE /persons/{person_id}: the path has a GET and a PATCH route and no
\* DELETE route, so the framework answers 405 and no handler runs.
DeletePerson(person_id) ==
    /\ steps < MaxSteps
    /\ steps' = steps + 1
    /\ req' = Request("delete_person", person_id, <<>>)
    /\ resp' = Response("delete_person", 405, NoSuchId, "Method Not Allowed", "")
    /\ UNCHANGED <<persons, addresses, addressKeys, products, orders, nextProduct, nextPerson, nextOrder, now, threads>>

\* --------------------------------------------------------------- addresses
\* AddressRead(**address.model_dump()): the caller's id and fields, and the two
\* timestamps every entity carries.
AddressRead(address, created, updated) ==
    [id |-> address.id,
     street |-> address.street,
     city |-> address.city,
     created_at |-> created,
     updated_at |-> updated]

\* create_address that takes every id for a stored one.
CreateAddressRejectsAll(address) ==
    /\ steps < MaxSteps
    /\ steps' = steps + 1
    /\ req' = Request("create_address", NoSuchId, address)
    /\ resp' = Response("create_address", 400, NoSuchId, "Address with this ID already exists", "")
    /\ UNCHANGED <<persons, addresses, addressKeys, products, orders, nextProduct, nextPerson, nextOrder, now, threads>>

\* create_address that writes the table before it looks for the id.
CreateAddressOverwrites(address) ==
    /\ steps < MaxSteps
    /\ steps' = steps + 1
    /\ req' = Request("create_address", NoSuchId, address)
    /\ addresses' = Put(addresses, address.id, AddressRead(address, now, now))
    /\ IF address.id \in DOMAIN addresses
       THEN /\ resp' = Response("create_address", 400, NoSuchId, "Address with this ID already exists", "")
            /\ UNCHANGED addressKeys
       ELSE /\ resp' = Response("create_address", 201, address.id, "", AddressRead(address, now, now))
            /\ addressKeys' = Append(addressKeys, address.id)
    /\ UNCHANGED <<persons, products, orders, nextProduct, nextPerson, nextOrder, now, threads>>

\* POST /addresses
CreateAddress(address) ==
    /\ steps < MaxSteps
    /\ steps' = steps + 1
    /\ req' = Request("create_address", NoSuchId, address)
    /\ IF address.id \in DOMAIN addresses
       THEN /\ resp' = Response("create_address", 400, NoSuchId, "Address with this ID already exists", "")
            /\ UNCHANGED <<addresses, addressKeys>>
       ELSE /\ addresses' = Put(addresses, address.id, AddressRead(address, now, now))
            /\ addressKeys' = Append(addressKeys, address.id)
            /\ resp' = Response("create_address", 201, address.id, "", AddressRead(address, now, now))
    /\ UNCHANGED <<persons, products, orders, nextProduct, nextPerson, nextOrder, now, threads>>

\* PATCH /addresses/{address_id}
UpdateAddress(address_id, update) ==
    /\ steps < MaxSteps
    /\ steps' = steps + 1
    /\ req' = Request("update_address", address_id, update)
    /\ IF address_id \notin DOMAIN addresses
       THEN /\ resp' = Response("update_address", 404, NoSuchId, "Address not found", "")
            /\ UNCHANGED addresses
       ELSE /\ addresses' = [addresses EXCEPT ![address_id] = DictUpdate(@, update.vals)]
            /\ resp' = Response("update_address", 200, NoSuchId, "", "")
    /\ UNCHANGED addressKeys
    /\ UNCHANGED <<persons, products, orders, nextProduct, nextPerson, nextOrder, now, threads>>

\* ------------------------------------------------------------------ orders
\* The fields OrderRead declares without Optional.
OrderRequired == {"status", "shipping_address"}

\* An OrderRead whose total is computed from the parts, not taken as given.
OrderReadRepriced(order, id, created, updated) ==
    [id |-> id,
     order_number |-> order.order_number,
     customer_id |-> order.customer_id,
     customer_name |-> order.customer_name,
     customer_email |-> order.customer_email,
     items |-> order.items,
     subtotal |-> order.subtotal,
     tax_amount |-> order.tax_amount,
     shipping_amount |-> order.shipping_amount,
     total_amount |-> order.subtotal + order.tax_amount + order.shipping_amount,
     status |-> order.status,
     shipping_address |-> order.shipping_address,
     notes |-> order.notes,
     created_at |-> created,
     updated_at |-> updated]

\* OrderRead(**order.model_dump()): the payload as given, a fresh id and the clock
\* read by the default factories of created_at and updated_at.
OrderRead(order, id, created, updated) ==
    [id |-> id,
     order_number |-> order.order_number,
     customer_id |-> order.customer_id,
     customer_name |-> order.customer_name,
     customer_email |-> order.customer_email,
     items |-> order.items,
     subtotal |-> order.subtotal,
     tax_amount |-> order.tax_amount,
     shipping_amount |-> order.shipping_amount,
     total_amount |-> order.total_amount,
     status |-> order.status,
     shipping_address |-> order.shipping_address,
     notes |-> order.notes,
     created_at |-> created,
     updated_at |-> updated]

\* A scan that never finds the number.
OrderNumberTakenNever(order_number) == FALSE

\* for existing_order in orders.values(): if existing_order.order_number == order_number
OrderNumberTaken(order_number) ==
    \E oid \in DOMAIN orders : orders[oid].order_number = order_number

\* The stock check off by one: a quantity equal to the stock is refused.
ItemCheckOffByOne(item) ==
    IF item.product_id \notin DOMAIN products THEN 1
    ELSE IF products[item.product_id].stock_quantity <= item.quantity THEN 2
    ELSE 0

\* The two checks of one item, in the loop's order: 0 passes, 1 is a product that
\* is not stored, 2 is a stock below the quantity.
ItemCheck(item) ==
    IF item.product_id \notin DOMAIN products THEN 1
    ELSE IF products[item.product_id].stock_quantity < item.quantity THEN 2
    ELSE 0

\* The loop run as two passes: every item's product is looked up before any
\* stock is compared, so an unknown product is reported first.
FirstFailingItemTwoPass(items) ==
    IF \A i \in 1..Len(items) : ItemCheck(items[i]) = 0 THEN 0
    ELSE IF \E i \in 1..Len(items) : ItemCheck(items[i]) = 1
    THEN CHOOSE i \in 1..Len(items) :
           /\ ItemCheck(items[i]) = 1
           /\ \A j \in 1..(i - 1) : ItemCheck(items[j]) # 1
    ELSE CHOOSE i \in 1..Len(items) :
           /\ ItemCheck(items[i]) # 0
           /\ \A j \in 1..(i - 1) : ItemCheck(items[j]) = 0

\* The loop with a running total: an item fails when the quantities asked of
\* its product so far, its own included, exceed the stock.
FirstFailingItemCumulative(items) ==
    LET RECURSIVE Asked(_, _)
        Asked(i, j) ==
            IF j = 0 THEN 0
            ELSE Asked(i, j - 1)
                   + (IF items[j].product_id = items[i].product_id THEN items[j].quantity ELSE 0)
        Fails(i) ==
            \/ items[i].product_id \notin DOMAIN products
            \/ products[items[i].product_id].stock_quantity < Asked(i, i)
    IN IF \A i \in 1..Len(items) : ~Fails(i) THEN 0
       ELSE CHOOSE i \in 1..Len(items) : Fails(i) /\ \A j \in 1..(i - 1) : ~Fails(j)

\* for item in order.items: the index of the first item that raises, 0 if none does.
FirstFailingItem(items) ==
    IF \A i \in 1..Len(items) : ItemCheck(items[i]) = 0 THEN 0
    ELSE CHOOSE i \in 1..Len(items) :
           /\ ItemCheck(items[i]) # 0
           /\ \A j \in 1..(i - 1) : ItemCheck(items[j]) = 0

\* The products table with the stock of each ordered product debited.
ProductsDebited(order) ==
    [pid \in DOMAIN products |->
        IF \E i \in 1..Len(order.items) : order.items[i].product_id = pid
        THEN [products[pid] EXCEPT !.stock_quantity = 0]
        ELSE products[pid]]

\* The products table once an order is admitted: as it was, the stock deduction
\* is a TODO of the handler.
ProductsAfterOrder(order) == products

\* A validation that passes the empty list.
ItemsValidAny(items) == TRUE

\* items: List[OrderItem] = Field(..., min_length=1)
ItemsValid(items) == Len(items) >= 1

\* POST /orders
\* An OrderCreate whose items list is empty fails the model's min_length=1 and
\* is answered 422 before the handler's body runs.
CreateOrder(order) ==
    /\ steps < MaxSteps
    /\ steps' = steps + 1
    /\ req' = Request("create_order", NoSuchId, order)
    /\ LET bad == FirstFailingItem(order.items) IN
       IF ~ItemsValid(order.items)
       THEN /\ resp' = Response("create_order", 422, NoSuchId, "List should have at least 1 item", "")
            /\ UNCHANGED <<orders, nextOrder, products>>
       ELSE IF OrderNumberTaken(order.order_number)
       THEN /\ resp' = Response("create_order", 400, NoSuchId, "Order with this order number already exists", "")
            /\ UNCHANGED <<orders, nextOrder, products>>
       ELSE IF order.customer_id \notin DOMAIN persons
       THEN /\ resp' = Response("create_order", 400, NoSuchId, "Customer not found", "")
            /\ UNCHANGED <<orders, nextOrder, products>>
       ELSE IF bad # 0 /\ ItemCheck(order.items[bad]) = 1
       THEN /\ resp' = Response("create_order", 400, order.items[bad].product_id, "Product not found", "")
            /\ UNCHANGED <<orders, nextOrder, products>>
       ELSE IF bad # 0
       THEN /\ resp' = Response("create_order", 400, order.items[bad].product_id,
                                "Insufficient stock for product", products[order.items[bad].product_id].name)
            /\ UNCHANGED <<orders, nextOrder, products>>
       ELSE /\ orders' = Put(orders, nextOrder, OrderRead(order, nextOrder, now, now))
            /\ nextOrder' = nextOrder + 1
            /\ products' = ProductsAfterOrder(order)
            /\ resp' = Response("create_order", 201, nextOrder, "", OrderRead(order, nextOrder, now, now))
    /\ UNCHANGED <<persons, addresses, addressKeys, nextProduct, nextPerson, now, threads>>

\* GET /orders/{order_id}
GetOrder(order_id) ==
    /\ steps < MaxSteps
    /\ steps' = steps + 1
    /\ req' = Request("get_order", order_id, <<>>)
    /\ IF order_id \notin DOMAIN orders
       THEN resp' = Response("get_order", 404, NoSuchId, "Order not found", "")
       ELSE resp' = Response("get_order", 200, order_id, "", orders[order_id])
    /\ UNCHANGED <<persons, addresses, addressKeys, products, orders, nextProduct, nextPerson, nextOrder, now, threads>>

\* update_order that rebuilds the order as a new one: created_at is read again.
UpdateOrderRecreates(order_id, update) ==
    /\ steps < MaxSteps
    /\ steps' = steps + 1
    /\ req' = Request("update_order", order_id, update)
    /\ IF order_id \notin DOMAIN orders
       THEN /\ resp' = Response("update_order", 404, NoSuchId, "Order not found", "")
            /\ UNCHANGED orders
       ELSE IF update.nulls \cap OrderRequired # {}
       THEN /\ resp' = Response("update_order", 500, NoSuchId, "Internal Server Error", "")
            /\ UNCHANGED orders
       ELSE /\ orders' = [orders EXCEPT ![order_id] =
                            [DictUpdate(DictUpdate(@, update.vals), [f \in update.nulls |-> None])
                               EXCEPT !.updated_at = now, !.created_at = now]]
            /\ resp' = Response("update_order", 200, NoSuchId, "", "")
    /\ UNCHANGED <<persons, addresses, addressKeys, products, nextProduct, nextPerson, nextOrder, now, threads>>

\* update_order that refuses to change an order that is delivered or cancelled.
UpdateOrderFinal(order_id, update) ==
    /\ steps < MaxSteps
    /\ steps' = steps + 1
    /\ req' = Request("update_order", order_id, update)
    /\ IF order_id \notin DOMAIN orders
       THEN /\ resp' = Response("update_order", 404, NoSuchId, "Order not found", "")
            /\ UNCHANGED orders
       ELSE IF orders[order_id].status \in {"delivered", "cancelled"}
       THEN /\ resp' = Response("update_order", 400, NoSuchId, "Order can no longer be changed", "")
            /\ UNCHANGED orders
       ELSE IF update.nulls \cap OrderRequired # {}
       THEN /\ resp' = Response("update_order", 500, NoSuchId, "Internal Server Error", "")
            /\ UNCHANGED orders
       ELSE /\ orders' = [orders EXCEPT ![order_id] =
                            [DictUpdate(DictUpdate(@, update.vals), [f \in update.nulls |-> None])
                               EXCEPT !.updated_at = now]]
            /\ resp' = Response("update_order", 200, NoSuchId, "", "")
    /\ UNCHANGED <<persons, addresses, addressKeys, products, nextProduct, nextPerson, nextOrder, now, threads>>

\* PATCH /orders/{order_id}
UpdateOrder(order_id, update) ==
    /\ steps < MaxSteps
    /\ steps' = steps + 1
    /\ req' = Request("update_order", order_id, update)
    /\ IF order_id \notin DOMAIN orders
       THEN /\ resp' = Response("update_order", 404, NoSuchId, "Order not found", "")
            /\ UNCHANGED orders
       ELSE IF update.nulls \cap OrderRequired # {}
       THEN \* OrderRead(**stored) raises a ValidationError nobody catches
            /\ resp' = Response("update_order", 500, NoSuchId, "Internal Server Error", "")
            /\ UNCHANGED orders
       ELSE /\ orders' = [orders EXCEPT ![order_id] =
                            [DictUpdate(DictUpdate(@, update.vals), [f \in update.nulls |-> None])
                               EXCEPT !.updated_at = now]]
            /\ resp' = Response("update_order", 200, NoSuchId, "", "")
    /\ UNCHANGED <<persons, addresses, addressKeys, products, nextProduct, nextPerson, nextOrder, now, threads>>

\* DELETE /orders/{order_id}
DeleteOrder(order_id) ==
    /\ steps < MaxSteps
    /\ steps' = steps + 1
    /\ req' = Request("delete_order", order_id, <<>>)
    /\ IF order_id \notin DOMAIN orders
       THEN /\ resp' = Response("delete_order", 404, NoSuchId, "Order not found", "")
            /\ UNCHANGED orders
       ELSE /\ orders' = Del(orders, order_id)
            /\ resp' = Response("delete_order", 200, NoSuchId, "Order deleted successfully", "")
    /\ UNCHANGED <<persons, addresses, addressKeys, products, nextProduct, nextPerson, nextOrder, now, threads>>

\* --------------------------------------------------------- units and skills
\* POST /units and POST /skills: the application declares no route for either
\* path and keeps no table of units or skills, so the framework answers 404
\* and no handler runs.
NoRoute(op, body) ==
    /\ steps < MaxSteps
    /\ steps' = steps + 1
    /\ req' = Request(op, NoSuchId, body)
    /\ resp' = Response(op, 404, NoSuchId, "Not Found", "")
    /\ UNCHANGED <<persons, addresses, addressKeys, products, orders, nextProduct, nextPerson, nextOrder, now, threads>>

CreateUnit(unit) == NoRoute("create_unit", unit)

CreateSkill(skill) == NoRoute("create_skill", skill)

\* ------------------------------------------------------------------- lists
\* str.lower() on the strings the payloads and the filters carry.
Lower(s) ==
    CASE s \in {"Mac", "MAC", "mac"} -> "mac"
      [] s \in {"Pen", "PEN", "pen"} -> "pen"
      [] s \in {"MA", "Ma", "ma"} -> "ma"
      [] s \in {"Tech", "TECH", "tech"} -> "tech"
      [] s \in {"Food", "FOOD", "food"} -> "food"
      [] s \in {"New York", "NEW YORK", "new york"} -> "new york"
      [] s \in {"Boston", "BOSTON", "boston"} -> "boston"
      [] OTHER -> s

\* The substrings of a lower-case product name.
Substrings(s) ==
    CASE s = "mac" -> {"", "m", "a", "c", "ma", "ac", "mac"}
      [] s = "pen" -> {"", "p", "e", "n", "pe", "en", "pen"}
      [] OTHER -> {"", s}

\* needle in hay, for str
Contains(hay, needle) == needle \in Substrings(hay)

\* The keys of a table whose ids are drawn in increasing order, in the order
\* the dict took them.
RECURSIVE KeyOrder(_)
KeyOrder(S) ==
    IF S = {} THEN <<>>
    ELSE LET k == CHOOSE x \in S : \A y \in S : x <= y
         IN <<k>> \o KeyOrder(S \ {k})

\* list(d.values()) for the keys in dict order.
ValuesOf(d, keys) == [i \in 1..Len(keys) |-> d[keys[i]]]

\* The elements of a list.
Range(s) == {s[i] : i \in 1..Len(s)}

\* if param is not None: results = [x for x in results if x passes], where
\* passing are the elements of results that pass the filter's test.
Narrow(results, filters, param, passing) ==
    IF param \in DOMAIN filters THEN SelectSeq(results, LAMBDA x : x \in passing) ELSE results

\* list_products that keeps a product when any of the filters set matches it.
ListProductsAny(filters) ==
    LET all == ValuesOf(products, KeyOrder(DOMAIN products))
        Hit(p) ==
            \/ "name" \in DOMAIN filters /\ Contains(Lower(p.name), Lower(filters.name))
            \/ "sku" \in DOMAIN filters /\ p.sku = filters.sku
            \/ "category" \in DOMAIN filters /\ Lower(p.category) = Lower(filters.category)
            \/ "is_active" \in DOMAIN filters /\ p.is_active = filters.is_active
            \/ "min_price" \in DOMAIN filters /\ p.price >= filters.min_price
            \/ "max_price" \in DOMAIN filters /\ p.price <= filters.max_price
    IN IF DOMAIN filters = {} THEN all ELSE SelectSeq(all, Hit)

\* The list list_products returns.
ListProductsResult(filters) ==
    LET r0 == ValuesOf(products, KeyOrder(DOMAIN products))
        r1 == Narrow(r0, filters, "name", {p \in Range(r0) : Contains(Lower(p.name), Lower(filters.name))})
        r2 == Narrow(r1, filters, "sku", {p \in Range(r1) : p.sku = filters.sku})
        r3 == Narrow(r2, filters, "category", {p \in Range(r2) : Lower(p.category) = Lower(filters.category)})
        r4 == Narrow(r3, filters, "is_active", {p \in Range(r3) : p.is_active = filters.is_active})
        r5 == Narrow(r4, filters, "min_price", {p \in Range(r4) : p.price >= filters.min_price})
    IN Narrow(r5, filters, "max_price", {p \in Range(r5) : p.price <= filters.max_price})

\* The list list_orders returns.
ListOrdersResult(filters) ==
    LET r0 == ValuesOf(orders, KeyOrder(DOMAIN orders))
        r1 == Narrow(r0, filters, "order_number", {o \in Range(r0) : o.order_number = filters.order_number})
        r2 == Narrow(r1, filters, "customer_id", {o \in Range(r1) : o.customer_id = filters.customer_id})
        r3 == Narrow(r2, filters, "status", {o \in Range(r2) : o.status = filters.status})
        r4 == Narrow(r3, filters, "min_total", {o \in Range(r3) : o.total_amount >= filters.min_total})
    IN Narrow(r4, filters, "max_total", {o \in Range(r4) : o.total_amount <= filters.max_total})

\* list_addresses that returns its matches in the order of their ids.
ListAddressesSorted(filters) ==
    LET r0 == ValuesOf(addresses, KeyOrder(DOMAIN addresses))
        r1 == Narrow(r0, filters, "street", {a \in Range(r0) : a.street = filters.street})
    IN Narrow(r1, filters, "city", {a \in Range(r1) : a.city = filters.city})

\* The list list_addresses returns.
ListAddressesResult(filters) ==
    LET r0 == ValuesOf(addresses, addressKeys)
        r1 == Narrow(r0, filters, "street", {a \in Range(r0) : a.street = filters.street})
    IN Narrow(r1, filters, "city", {a \in Range(r1) : a.city = filters.city})

\* The list list_persons returns.
ListPersonsResult(filters) ==
    LET r0 == ValuesOf(persons, KeyOrder(DOMAIN persons))
        r1 == Narrow(r0, filters, "uni", {p \in Range(r0) : p.uni = filters.uni})
        r2 == Narrow(r1, filters, "first_name", {p \in Range(r1) : p.first_name = filters.first_name})
    IN Narrow(r2, filters, "city", {p \in Range(r2) : \E i \in 1..Len(p.addresses) : p.addresses[i].city = filters.city})

\* A list request: it reads one table and writes none.
List(op, filters, results) ==
    /\ steps < MaxSteps
    /\ steps' = steps + 1
    /\ req' = Request(op, NoSuchId, filters)
    /\ resp' = Response(op, 200, NoSuchId, "", results)
    /\ UNCHANGED <<persons, addresses, addressKeys, products, orders, nextProduct, nextPerson, nextOrder, now, threads>>

\* GET /products
ListProducts(filters) == List("list_products", filters, ListProductsResult(filters))

\* GET /orders
ListOrders(filters) == List("list_orders", filters, ListOrdersResult(filters))

\* GET /addresses
ListAddresses(filters) == List("list_addresses", filters, ListAddressesResult(filters))

\* GET /persons
ListPersons(filters) == List("list_persons", filters, ListPersonsResult(filters))

\* Time passes between requests.
Tick ==
    /\ steps < MaxSteps
    /\ steps' = steps + 1
    /\ now' = now + 1
    /\ UNCHANGED <<persons, addresses, addressKeys, products, orders, nextProduct, nextPerson, nextOrder, req, resp, threads>>

\* ----------------------------------------------------- concurrent requests
\* The handlers are plain functions, which the framework runs on worker
\* threads: a thread can be suspended between its handler's last check and
\* its write of the table, and another thread's handler run in between.  A
\* handler is two steps here: the checks, which answer at once when one fails,
\* and the write with the answer.

\* What is the same in every step of a thread: it counts, and no time passes.
ThreadStep == steps < MaxSteps /\ steps' = steps + 1 /\ now' = now

\* Thread t answers its request without a write.
Refuse(t, thread, status, id, msg, arg) ==
    /\ req' = Request(thread.op, thread.id, thread.body)
    /\ resp' = Response(thread.op, status, id, msg, arg)
    /\ threads' = [threads EXCEPT ![t] = Answered(thread)]

\* create_product up to its sku scan.
CreateProductScan(t, product) ==
    /\ ThreadStep
    /\ threads[t].pc = "idle"
    /\ LET thread == Handling("create_product", NoSuchId, product, Cardinality(DOMAIN products)) IN
       IF SkuTaken(product.sku)
       THEN Refuse(t, thread, 400, NoSuchId, "Product with this SKU already exists", "")
       ELSE threads' = [threads EXCEPT ![t] = thread] /\ UNCHANGED <<req, resp>>
    /\ UNCHANGED <<persons, addresses, addressKeys, products, orders, nextProduct, nextPerson, nextOrder>>

\* create_product from the construction of the ProductRead to the return.
CreateProductStore(t) ==
    /\ ThreadStep
    /\ threads[t].pc = "store" /\ threads[t].op = "create_product"
    /\ products' = Put(products, nextProduct, ProductRead(threads[t].body, nextProduct, now, now))
    /\ nextProduct' = nextProduct + 1
    /\ req' = Request("create_product", NoSuchId, threads[t].body)
    /\ resp' = Response("create_product", 201, nextProduct, "", ProductRead(threads[t].body, nextProduct, now, now))
    /\ threads' = [threads EXCEPT ![t] = Answered(@)]
    /\ UNCHANGED <<persons, addresses, addressKeys, orders, nextPerson, nextOrder>>

\* update_product up to its sku scan.
UpdateProductScan(t, product_id, update) ==
    /\ ThreadStep
    /\ threads[t].pc = "idle"
    /\ LET thread == Handling("update_product", product_id, update, Cardinality(DOMAIN products)) IN
       IF product_id \notin DOMAIN products
       THEN Refuse(t, thread, 404, NoSuchId, "Product not found", "")
       ELSE IF PatchHas(update, "sku") /\ SkuTakenByOther(product_id, update.vals.sku)
       THEN Refuse(t, thread, 400, NoSuchId, "Product with this SKU already exists", "")
       ELSE threads' = [threads EXCEPT ![t] = thread] /\ UNCHANGED <<req, resp>>
    /\ UNCHANGED <<persons, addresses, addressKeys, products, orders, nextProduct, nextPerson, nextOrder>>

\* update_product from the copy of the stored product to the return; the
\* lookup raises a KeyError when the product was deleted since the check.
UpdateProductStore(t) ==
    /\ ThreadStep
    /\ threads[t].pc = "store" /\ threads[t].op = "update_product"
    /\ LET product_id == threads[t].id
           update == threads[t].body
       IN IF product_id \notin DOMAIN products \/ update.nulls \cap ProductRequired # {}
          THEN /\ Refuse(t, threads[t], 500, NoSuchId, "Internal Server Error", "")
               /\ UNCHANGED products
          ELSE /\ products' = [products EXCEPT ![product_id] =
                                 [DictUpdate(DictUpdate(@, update.vals), [f \in update.nulls |-> None])
                                    EXCEPT !.updated_at = now]]
               /\ req' = Request("update_product", product_id, update)
               /\ resp' = Response("update_product", 200, NoSuchId, "", "")
               /\ threads' = [threads EXCEPT ![t] = Answered(@)]
    /\ UNCHANGED <<persons, addresses, addressKeys, orders, nextProduct, nextPerson, nextOrder>>

\* create_order up to the end of its loop over the items.
CreateOrderScan(t, order) ==
    /\ ThreadStep
    /\ threads[t].pc = "idle"
    /\ LET thread == Handling("create_order", NoSuchId, order, Cardinality(DOMAIN orders))
           bad == FirstFailingItem(order.items)
       IN IF ~ItemsValid(order.items)
          THEN Refuse(t, thread, 422, NoSuchId, "List should have at least 1 item", "")
          ELSE IF OrderNumberTaken(order.order_number)
          THEN Refuse(t, thread, 400, NoSuchId, "Order with this order number already exists", "")
          ELSE IF order.customer_id \notin DOMAIN persons
          THEN Refuse(t, thread, 400, NoSuchId, "Customer not found", "")
          ELSE IF bad # 0 /\ ItemCheck(order.items[bad]) = 1
          THEN Refuse(t, thread, 400, order.items[bad].product_id, "Product not found", "")
          ELSE IF bad # 0
          THEN Refuse(t, thread, 400, order.items[bad].product_id,
                      "Insufficient stock for product", products[order.items[bad].product_id].name)
          ELSE threads' = [threads EXCEPT ![t] = thread] /\ UNCHANGED <<req, resp>>
    /\ UNCHANGED <<persons, addresses, addressKeys, products, orders, nextProduct, nextPerson, nextOrder>>

\* create_order that looks at the stock again as it stores: the orders stored
\* for the product and this one must fit in it.
CreateOrderStoreRechecks(t) ==
    /\ ThreadStep
    /\ threads[t].pc = "store" /\ threads[t].op = "create_order"
    /\ LET order == threads[t].body
           pid == order.items[1].product_id
           taken == Cardinality({o \in DOMAIN orders : orders[o].items[1].product_id = pid})
       IN IF pid \in DOMAIN products /\ taken + order.items[1].quantity > products[pid].stock_quantity
          THEN /\ Refuse(t, threads[t], 400, pid, "Insufficient stock for product", products[pid].name)
               /\ UNCHANGED <<orders, nextOrder, products>>
          ELSE /\ orders' = Put(orders, nextOrder, OrderRead(order, nextOrder, now, now))
               /\ nextOrder' = nextOrder + 1
               /\ products' = ProductsAfterOrder(order)
               /\ req' = Request("create_order", NoSuchId, order)
               /\ resp' = Response("create_order", 201, nextOrder, "", OrderRead(order, nextOrder, now, now))
               /\ threads' = [threads EXCEPT ![t] = Answered(@)]
    /\ UNCHANGED <<persons, addresses, addressKeys, nextProduct, nextPerson>>

\* create_order from the construction of the OrderRead to the return.
CreateOrderStore(t) ==
    /\ ThreadStep
    /\ threads[t].pc = "store" /\ threads[t].op = "create_order"
    /\ LET order == threads[t].body IN
       /\ orders' = Put(orders, nextOrder, OrderRead(order, nextOrder, now, now))
       /\ nextOrder' = nextOrder + 1
       /\ products' = ProductsAfterOrder(order)
       /\ req' = Request("create_order", NoSuchId, order)
       /\ resp' = Response("create_order", 201, nextOrder, "", OrderRead(order, nextOrder, now, now))
       /\ threads' = [threads EXCEPT ![t] = Answered(@)]
    /\ UNCHANGED <<persons, addresses, addressKeys, nextProduct, nextPerson>>

\* ------------------------------------------------------------------ inputs
\* ProductCreate payloads.
ProductCreates ==
    [name : {"Mac"}, description : {None}, sku : SKUs, category : {"Tech"},
     price : {1}, stock_quantity : Stocks, is_active : {TRUE}]

\* What a patch can say about field f: nothing, a value, or null.
FieldOptions(f, Values) ==
    {[vals |-> EmptyDict, nulls |-> {}], [vals |-> EmptyDict, nulls |-> {f}]}
        \cup {[vals |-> f :> v, nulls |-> {}] : v \in Values}

\* What a patch without nulls can say about field f: nothing, or a value.
ValueOptions(f, Values) ==
    {[vals |-> EmptyDict, nulls |-> {}]} \cup {[vals |-> f :> v, nulls |-> {}] : v \in Values}

\* The patches made of one choice of A and one of B.
Both(A, B) == {[vals |-> a.vals @@ b.vals, nulls |-> a.nulls \cup b.nulls] : a \in A, b \in B}

\* ProductUpdate payloads: sku and name each unset, null or a value, or the
\* description alone.
ProductUpdates ==
    Both(FieldOptions("sku", SKUs), FieldOptions("name", {"Pen"}))
        \cup FieldOptions("description", {"text"})

\* ProductUpdate payloads that name the name alone.
ProductRenames == FieldOptions("name", {"Pen"})

\* PersonCreate and PersonUpdate payloads, and the PersonUpdate payloads that
\* name the first_name alone.
PersonCreates == [uni : UNIs, first_name : {"Ada"}, addresses : {<<>>}]
PersonUpdates == Both(ValueOptions("uni", UNIs), ValueOptions("first_name", {"Grace"}))
PersonRenames == ValueOptions("first_name", {"Grace"})

\* AddressCreate and AddressUpdate payloads.
AddressCreates == [id : AddressIds, street : {"Main St"}, city : {"New York"}]
AddressUpdates == Both(ValueOptions("street", {"Oak Ave"}), ValueOptions("city", {"Boston"}))

\* OrderItem payloads: the product is a stored one or an unknown one.
OrderItems ==
    [product_id : DOMAIN products \cup {NoSuchId}, product_name : {"Mac"},
     quantity : Quantities, unit_price : {1}, subtotal : {1}]

\* OrderCreate payloads over the item lists L.
OrderCreatesOver(L) ==
    [order_number : OrderNumbers, customer_id : DOMAIN persons \cup {NoSuchId},
     customer_name : {"Ada"}, customer_email : {"ada@example.com"},
     items : L, subtotal : {1}, tax_amount : {0}, shipping_amount : {0},
     total_amount : {1}, status : {"pending"}, shipping_address : {"123 Main St"},
     notes : {None}]

\* Orders of one item, of none or one, and of one or two.
OneItem == {<<a>> : a \in OrderItems}
UpToOneItem == {<<>>} \cup OneItem
OneOrTwoItems == OneItem \cup {<<a, b>> : a \in OrderItems, b \in OrderItems}

\* OrderUpdate payloads: status and notes each unset, null or a value.
OrderUpdates == Both(FieldOptions("status", {"shipped"}), FieldOptions("notes", {"front desk"}))

\* What a list request can say about query parameter f: nothing, or value v.
Opt(f, v) == {EmptyDict, f :> v}

\* The payloads the list requests are tried on: a second product, two persons
\* with an address each, two addresses, and orders of the first product.
ProductListCreates ==
    {[name |-> "Mac", description |-> None, sku |-> "SKU-2", category |-> c,
      price |-> 2, stock_quantity |-> MaxStock, is_active |-> TRUE] : c \in {"Tech", "Food"}}
PersonListCreates ==
    {[uni |-> "abc1234", first_name |-> "Ada", addresses |-> <<[city |-> "New York"]>>],
     [uni |-> None, first_name |-> "Ada", addresses |-> <<[city |-> "Boston"]>>]}
AddressListCreates ==
    {[id |-> 1, street |-> "Main St", city |-> "New York"],
     [id |-> 2, street |-> "Main St", city |-> "Boston"]}
OrderListCreates ==
    {[o EXCEPT !.status = st] :
        o \in {x \in OrderCreatesOver(OneItem) :
                 x.customer_id = 1 /\ x.items[1].product_id = 1 /\ x.items[1].quantity = 1},
        st \in {"pending", "shipped"}}

\* Orders of the first customer and product in every status, and the
\* OrderUpdate payloads that name the status alone.
OrderStatusCreates ==
    {[o EXCEPT !.status = st] :
        o \in {x \in OrderCreatesOver(OneItem) :
                 x.customer_id = 1 /\ x.items[1].product_id = 1 /\ x.items[1].quantity = 1},
        st \in OrderStatus}
OrderStatusUpdates == FieldOptions("status", OrderStatus)

\* The payloads of the concurrent requests: products of full stock, patches
\* that name a sku alone, and orders of the first customer and product.
ProductRaceCreates == {p \in ProductCreates : p.stock_quantity = MaxStock}
ProductRaceUpdates == {u \in ValueOptions("sku", SKUs) : PatchHas(u, "sku")}
OrderRaceCreates ==
    {x \in OrderCreatesOver(OneItem) : x.customer_id = 1 /\ x.items[1].product_id = 1}

\* The payloads that differ from order in one of the fields the caller is
\* trusted with: the cached customer and product data and the amounts.
TrustedVariants(order) ==
    {order,
     [order EXCEPT !.customer_name = "Eve"],
     [order EXCEPT !.customer_email = "eve@example.com"],
     [order EXCEPT !.items[1].product_name = "iPad"],
     [order EXCEPT !.items[1].unit_price = 9],
     [order EXCEPT !.items[1].subtotal = 9],
     [order EXCEPT !.subtotal = 9],
     [order EXCEPT !.tax_amount = 9],
     [order EXCEPT !.shipping_amount = 9],
     [order EXCEPT !.total_amount = 9]}
OrderTrustCreates ==
    UNION {TrustedVariants(order) :
             order \in {x \in OrderCreatesOver(OneItem) :
                          x.items[1].quantity = 1 /\ x.order_number = "ORD-20250913-0001"}}

\* Patches that sell a product out.
ProductSellOuts == {u \in ValueOptions("stock_quantity", {0}) : PatchHas(u, "stock_quantity")}

\* The query parameters of the list requests.
ProductFilters ==
    {a @@ b @@ c : a \in Opt("category", "TECH"), b \in Opt("max_price", 1), c \in Opt("name", "MA")}
        \cup {"sku" :> "SKU-1", "is_active" :> TRUE, "min_price" :> 2}
OrderFilters ==
    {a @@ b @@ c : a \in Opt("order_number", "ORD-20250913-0001"), b \in Opt("status", "shipped"),
                   c \in Opt("customer_id", 1)}
        \cup {"min_total" :> 2, "max_total" :> 1}
AddressFilters ==
    {a @@ b : a \in Opt("street", "Main St"), b \in Opt("city", "new york") \cup Opt("city", "Boston")}
PersonFilters ==
    {a @@ b : a \in Opt("uni", "abc1234"), b \in Opt("city", "new york")} \cup {"first_name" :> "Ada"}

\* UnitCreate and SkillCreate payloads, by the fields their uniqueness is about.
UnitCreates == [name : {"Marine"}, race : {"terran", "zerg"}]
SkillCreates == [name : {"Stim Pack"}]

Init ==
    /\ persons = EmptyDict
    /\ addresses = EmptyDict
    /\ addressKeys = <<>>
    /\ products = EmptyDict
    /\ orders = EmptyDict
    /\ nextProduct = 1
    /\ nextPerson = 1
    /\ nextOrder = 1
    /\ now = 0
    /\ steps = 0
    /\ req = Request("none", NoSuchId, <<>>)
    /\ resp = Response("none", 0, NoSuchId, "", "")
    /\ threads = [t \in Threads |-> Idle]

\* One request, or one tick of the clock.
Next ==
    \/ \E product \in ProductCreates : CreateProduct(product)
    \/ \E product_id \in DOMAIN products \cup {NoSuchId}, update \in ProductUpdates : UpdateProduct(product_id, update)
    \/ \E product_id \in DOMAIN products \cup {NoSuchId} : DeleteProduct(product_id)
    \/ \E person \in PersonCreates : CreatePerson(person)
    \/ \E person_id \in DOMAIN persons \cup {NoSuchId}, update \in PersonUpdates : UpdatePerson(person_id, update)
    \/ \E address \in AddressCreates : CreateAddress(address)
    \/ \E address_id \in DOMAIN addresses \cup {NoSuchId}, update \in AddressUpdates : UpdateAddress(address_id, update)
    \/ \E order \in OrderCreatesOver(OneItem) : CreateOrder(order)
    \/ \E order_id \in DOMAIN orders \cup {NoSuchId}, update \in OrderUpdates : UpdateOrder(order_id, update)
    \/ \E order_id \in DOMAIN orders \cup {NoSuchId} : DeleteOrder(order_id)
    \/ Tick

Spec == Init /\ [][Next]_vars

\* Orders of one or two items, for the customers and the products they name.
NextOrders ==
    \/ \E person \in PersonCreates : CreatePerson(person)
    \/ \E product \in ProductCreates : CreateProduct(product)
    \/ \E order \in OrderCreatesOver(OneOrTwoItems) : CreateOrder(order)

SpecOrders == Init /\ [][NextOrders]_vars

\* The service once a customer and a product are stored.
InitStocked ==
    /\ products = 1 :> ProductRead([name |-> "Mac", description |-> None, sku |-> "SKU-1", category |-> "Tech",
                                     price |-> 1, stock_quantity |-> MaxStock, is_active |-> TRUE], 1, 0, 0)
    /\ persons = 1 :> PersonRead([uni |-> None, first_name |-> "Ada", addresses |-> <<>>], 1, 0, 0)
    /\ addresses = EmptyDict
    /\ addressKeys = <<>>
    /\ orders = EmptyDict
    /\ nextProduct = 2
    /\ nextPerson = 2
    /\ nextOrder = 1
    /\ now = 0
    /\ steps = 0
    /\ req = Request("none", NoSuchId, <<>>)
    /\ resp = Response("none", 0, NoSuchId, "", "")
    /\ threads = [t \in Threads |-> Idle]

\* The life of an order, and of the product and the customer it names.
NextStocked ==
    \/ \E product \in {p \in ProductCreates : p.stock_quantity = MaxStock} : CreateProduct(product)
    \/ \E product_id \in DOMAIN products \cup {NoSuchId}, update \in ProductRenames : UpdateProduct(product_id, update)
    \/ \E product_id \in DOMAIN products \cup {NoSuchId} : DeleteProduct(product_id)
    \/ \E person_id \in DOMAIN persons \cup {NoSuchId}, update \in PersonRenames : UpdatePerson(person_id, update)
    \/ \E order \in OrderCreatesOver(UpToOneItem) : CreateOrder(order)
    \/ \E order_id \in DOMAIN orders \cup {NoSuchId}, update \in OrderUpdates : UpdateOrder(order_id, update)
    \/ \E order_id \in DOMAIN orders \cup {NoSuchId} : DeleteOrder(order_id)
    \/ Tick

SpecStocked == InitStocked /\ [][NextStocked]_vars

\* Deletes and the reads after them; an id may be one that was stored before.
\* Also the requests the application has no route for.
NextDeletes ==
    \/ \E product \in {p \in ProductCreates : p.stock_quantity = MaxStock} : CreateProduct(product)
    \/ \E product_id \in 0..(nextProduct - 1) : DeleteProduct(product_id)
    \/ \E product_id \in 0..(nextProduct - 1) : GetProduct(product_id)
    \/ \E person_id \in 0..(nextPerson - 1) : DeletePerson(person_id)
    \/ \E order \in OrderCreatesOver(OneItem) : CreateOrder(order)
    \/ \E order_id \in 0..(nextOrder - 1) : DeleteOrder(order_id)
    \/ \E order_id \in 0..(nextOrder - 1) : GetOrder(order_id)
    \/ \E unit \in UnitCreates : CreateUnit(unit)
    \/ \E skill \in SkillCreates : CreateSkill(skill)

SpecDeletes == InitStocked /\ [][NextDeletes]_vars

\* Reads: the get and list requests, between the creates that fill the tables.
NextReads ==
    \/ \E product \in ProductListCreates : CreateProduct(product)
    \/ \E person \in PersonListCreates : CreatePerson(person)
    \/ \E address \in AddressListCreates : CreateAddress(address)
    \/ \E order \in OrderListCreates : CreateOrder(order)
    \/ \E product_id \in DOMAIN products \cup {NoSuchId} : GetProduct(product_id)
    \/ \E order_id \in DOMAIN orders \cup {NoSuchId} : GetOrder(order_id)
    \/ \E filters \in ProductFilters : ListProducts(filters)
    \/ \E filters \in OrderFilters : ListOrders(filters)
    \/ \E filters \in AddressFilters : ListAddresses(filters)
    \/ \E filters \in PersonFilters : ListPersons(filters)

SpecReads == InitStocked /\ [][NextReads]_vars

\* The status of an order, set at its creation and by patches.
NextStatus ==
    \/ \E order \in OrderStatusCreates : CreateOrder(order)
    \/ \E order_id \in DOMAIN orders \cup {NoSuchId}, update \in OrderStatusUpdates : UpdateOrder(order_id, update)
    \/ \E order_id \in DOMAIN orders \cup {NoSuchId} : DeleteOrder(order_id)
    \/ Tick

SpecStatus == InitStocked /\ [][NextStatus]_vars

\* Skus and order numbers taken, given up by a delete, and taken again.
NextReuse ==
    \/ \E product \in ProductRaceCreates : CreateProduct(product)
    \/ \E product_id \in DOMAIN products \cup {NoSuchId}, update \in ProductRaceUpdates :
          UpdateProduct(product_id, update)
    \/ \E product_id \in DOMAIN products \cup {NoSuchId} : DeleteProduct(product_id)
    \/ \E order \in OrderRaceCreates : CreateOrder(order)
    \/ \E order_id \in DOMAIN orders \cup {NoSuchId} : DeleteOrder(order_id)

SpecReuse == InitStocked /\ [][NextReuse]_vars

\* Customers and their orders: every request that names a person or writes
\* the customer of an order.
NextCustomers ==
    \/ \E person \in PersonCreates : CreatePerson(person)
    \/ \E person_id \in DOMAIN persons \cup {NoSuchId}, update \in PersonRenames : UpdatePerson(person_id, update)
    \/ \E person_id \in DOMAIN persons \cup {NoSuchId} : DeletePerson(person_id)
    \/ \E order \in OrderCreatesOver(OneItem) : CreateOrder(order)
    \/ \E order_id \in DOMAIN orders \cup {NoSuchId}, update \in OrderUpdates : UpdateOrder(order_id, update)
    \/ \E order_id \in DOMAIN orders \cup {NoSuchId} : DeleteOrder(order_id)

SpecCustomers == InitStocked /\ [][NextCustomers]_vars

\* Orders that differ in what create_order does not look at, of products in
\* stock and sold out.
NextTrust ==
    \/ \E order \in OrderTrustCreates : CreateOrder(order)
    \/ \E product_id \in DOMAIN products, update \in ProductSellOuts : UpdateProduct(product_id, update)

SpecTrust == InitStocked /\ [][NextTrust]_vars

\* Two threads, each at one step of the handler it runs.
NextConcurrent ==
    \/ \E t \in Threads, product \in ProductRaceCreates : CreateProductScan(t, product)
    \/ \E t \in Threads : CreateProductStore(t)
    \/ \E t \in Threads, product_id \in DOMAIN products \cup {NoSuchId}, update \in ProductRaceUpdates :
          UpdateProductScan(t, product_id, update)
    \/ \E t \in Threads : UpdateProductStore(t)
    \/ \E t \in Threads, order \in OrderRaceCreates : CreateOrderScan(t, order)
    \/ \E t \in Threads : CreateOrderStore(t)

SpecConcurrent == InitStocked /\ [][NextConcurrent]_vars

\* ------------------------------------------------------------ properties
\* A step that handles a request: the clock stands still while a handler runs.
IsRequest == steps' = steps + 1 /\ now' = now

\* The fields a patch names, with a value or with null.
Named(update) == DOMAIN update.vals \cup update.nulls

\* C1: no two stored products have the same sku, whatever create_product,
\* update_product and delete_product requests came before.
C1_SkuUnique ==
    \A p, q \in DOMAIN products : p # q => products[p].sku # products[q].sku

\* Two products are stored and an update of one to the other's sku was refused.
C1_Witness ==
    /\ Cardinality(DOMAIN products) = 2
    /\ req.op = "update_product"
    /\ resp.status = 400

\* C2: no two stored orders have the same order_number; a create_order with the
\* order_number of a stored order is refused, and one order with that number
\* is stored afterward.
C2_OrderNumberUnique ==
    /\ [](\A o, q \in DOMAIN orders : o # q => orders[o].order_number # orders[q].order_number)
    /\ [][(/\ IsRequest
           /\ req'.op = "create_order"
           /\ \E o \in DOMAIN orders : orders[o].order_number = req'.body.order_number)
          => /\ resp'.status = 400
             /\ Cardinality({o \in DOMAIN orders' : orders'[o].order_number = req'.body.order_number}) = 1]_vars

\* A create_order with the number of the one stored order was refused.
C2_Witness ==
    /\ req.op = "create_order"
    /\ resp.status = 400
    /\ Cardinality(DOMAIN orders) = 1
    /\ \E o \in DOMAIN orders : orders[o].order_number = req.body.order_number

\* The admission rule of create_order, in the words of the claim.
Admissible(order) ==
    /\ \A o \in DOMAIN orders : orders[o].order_number # order.order_number
    /\ order.customer_id \in DOMAIN persons
    /\ \A i \in 1..Len(order.items) :
         /\ order.items[i].product_id \in DOMAIN products
         /\ products[order.items[i].product_id].stock_quantity >= order.items[i].quantity

\* The orders table gained one order that holds the payload, and kept the others.
StoredNew(order) ==
    \E id \in DOMAIN orders' :
        /\ id \notin DOMAIN orders
        /\ DOMAIN orders' = DOMAIN orders \cup {id}
        /\ orders'[id].order_number = order.order_number
        /\ orders'[id].customer_id = order.customer_id
        /\ orders'[id].items = order.items
        /\ \A o \in DOMAIN orders : orders'[o] = orders[o]

\* C3: create_order stores a new order exactly when the order_number is free,
\* the customer is a stored person and every item names a stored product whose
\* stock_quantity is at least the item's quantity; otherwise it answers 400
\* and stores nothing.
C3_OrderAdmission ==
    [][(IsRequest /\ req'.op = "create_order")
       => IF Admissible(req'.body)
          THEN resp'.status = 201 /\ StoredNew(req'.body)
          ELSE resp'.status = 400 /\ orders' = orders]_vars

\* An order of two items was stored, one of them for the whole stock of its product.
C3_Witness ==
    /\ req.op = "create_order"
    /\ resp.status = 201
    /\ Len(req.body.items) = 2
    /\ \E i \in 1..2 :
         /\ req.body.items[i].product_id \in DOMAIN products
         /\ products[req.body.items[i].product_id].stock_quantity = req.body.items[i].quantity

\* C4: a request answered with 400 or 404 leaves the four tables as they were.
C4_ErrorsChangeNothing ==
    [][(IsRequest /\ resp'.status \in {400, 404}) => tables' = tables]_vars

\* A create_address for an id that is stored was refused.
C4_Witness ==
    /\ req.op = "create_address"
    /\ resp.status = 400
    /\ req.body.id \in DOMAIN addresses

\* C5: create_order, accepted or refused, leaves the products table as it was;
\* the table changes only in a create_product, update_product or delete_product.
C5_OrdersLeaveStock ==
    [][/\ (IsRequest /\ req'.op = "create_order") => products' = products
       /\ products' # products => req'.op \in {"create_product", "update_product", "delete_product"}]_vars

\* An order was accepted for a product that is stored with its stock.
C5_Witness ==
    /\ req.op = "create_order"
    /\ resp.status = 201
    /\ \E i \in 1..Len(req.body.items) :
         products[req.body.items[i].product_id].stock_quantity >= req.body.items[i].quantity

\* C6: no two stored persons that have a UNI have the same UNI.
C6_UniUnique ==
    \A p, q \in DOMAIN persons :
        (p # q /\ persons[p].uni # None) => persons[p].uni # persons[q].uni

\* C7: update_product of a stored product with the sku of another stored
\* product answers 400 and the products table, the target with its updated_at
\* included, stays as it was.
C7_CollidingPatchDiscarded ==
    [][(/\ IsRequest
        /\ req'.op = "update_product"
        /\ req'.id \in DOMAIN products
        /\ "sku" \in DOMAIN req'.body.vals
        /\ \E q \in DOMAIN products : q # req'.id /\ products[q].sku = req'.body.vals.sku)
       => resp'.status = 400 /\ products' = products]_vars

\* A refused patch also named a new name, and came after the target's last write.
C7_Witness ==
    /\ req.op = "update_product"
    /\ resp.status = 400
    /\ "name" \in DOMAIN req.body.vals
    /\ products[req.id].name # req.body.vals.name
    /\ products[req.id].updated_at < now

\* C8: update_product of a stored product with its own sku is not refused as a
\* collision, and when the patch sets no field to null it answers 200 and the
\* product keeps its sku.
C8_OwnSkuAccepted ==
    [][(/\ IsRequest
        /\ req'.op = "update_product"
        /\ req'.id \in DOMAIN products
        /\ "sku" \in DOMAIN req'.body.vals
        /\ products[req'.id].sku = req'.body.vals.sku)
       => /\ resp'.status # 400
          /\ req'.body.nulls = {} =>
               /\ resp'.status = 200
               /\ products'[req'.id].sku = products[req'.id].sku]_vars

\* A patch that names a sku was accepted while another product holds the only
\* other sku: the sku it named was the target's own.
C8_Witness ==
    /\ req.op = "update_product"
    /\ resp.status = 200
    /\ "sku" \in DOMAIN req.body.vals
    /\ \E q \in DOMAIN products : q # req.id /\ SKUs = {products[q].sku, req.body.vals.sku}

\* What an accepted patch leaves of an entity: the fields it names take its
\* values, updated_at the current time, every other field its old value.
Patched(old, new, update) ==
    /\ DOMAIN new = DOMAIN old
    /\ \A f \in DOMAIN old :
         IF f = "updated_at" THEN new[f] = now
         ELSE IF f \in DOMAIN update.vals THEN new[f] = update.vals[f]
         ELSE IF f \in update.nulls THEN new[f] = None
         ELSE new[f] = old[f]

\* The table changed at key id as the patch says, and nowhere else.
PatchedAt(old, new, id, update) ==
    /\ DOMAIN new = DOMAIN old
    /\ Patched(old[id], new[id], update)
    /\ \A k \in DOMAIN old \ {id} : new[k] = old[k]

C10_UpdatedAtReset ==
    [][(IsRequest /\ resp'.status = 200) =>
         /\ req'.op = "update_person" => persons'[req'.id].updated_at = now
         /\ req'.op = "update_address" => addresses'[req'.id].updated_at = now
         /\ req'.op = "update_product" => products'[req'.id].updated_at = now
         /\ req'.op = "update_order" => orders'[req'.id].updated_at = now]_vars

\* The entities of a table keep their key, id and created_at over a step.
KeepsIdentity(old, new) ==
    \A k \in DOMAIN old \cap DOMAIN new :
        new[k].id = old[k].id /\ new[k].created_at = old[k].created_at

\* C11: every stored product and order is stored under its id, a create
\* answers with the id and created_at it stored, and no later request changes
\* the id or the created_at of a stored product or order.
C11_IdentityImmutable ==
    /\ [](/\ \A p \in DOMAIN products : products[p].id = p
          /\ \A o \in DOMAIN orders : orders[o].id = o)
    /\ [][/\ KeepsIdentity(products, products')
          /\ KeepsIdentity(orders, orders')
          /\ (IsRequest /\ resp'.status = 201 /\ req'.op = "create_product")
               => resp'.arg = products'[resp'.id] /\ resp'.arg.id = resp'.id
          /\ (IsRequest /\ resp'.status = 201 /\ req'.op = "create_order")
               => resp'.arg = orders'[resp'.id] /\ resp'.arg.id = resp'.id]_vars

\* An order was patched at a later time than it was created, beside a product
\* that was patched too.
C11_Witness ==
    /\ req.op = "update_order"
    /\ resp.status = 200
    /\ orders[req.id].created_at < orders[req.id].updated_at
    /\ \E p \in DOMAIN products : products[p].created_at < products[p].updated_at

\* C12: update_product, delete_product and update_person leave the orders table
\* as it was: every stored order keeps its items and its customer fields, also
\* when the product or the customer it names is changed or deleted.
C12_OrderSnapshot ==
    [][(IsRequest /\ req'.op \in {"update_product", "delete_product", "update_person"})
         => orders' = orders]_vars

\* The product of a stored order's item was deleted; the order still names it.
C12_Witness ==
    /\ req.op = "delete_product"
    /\ resp.status = 200
    /\ \E o \in DOMAIN orders :
         /\ orders[o].items[1].product_id = req.id
         /\ orders[o].items[1].product_name = "Mac"
         /\ req.id \notin DOMAIN products

\* The table lost key id and nothing else.
Removed(old, new, id) ==
    /\ DOMAIN new = DOMAIN old \ {id}
    /\ \A k \in DOMAIN new : new[k] = old[k]

\* C13: delete_product and delete_order of a stored id answer 200 and remove
\* that entity alone; of an id that is not stored they answer 404 and change
\* nothing; a get of an id that is not stored answers 404; and an id that was
\* deleted is never stored again.
C13_DeleteExact ==
    [][/\ (IsRequest /\ req'.op = "delete_product") =>
            IF req'.id \in DOMAIN products
            THEN resp'.status = 200 /\ Removed(products, products', req'.id) /\ orders' = orders
            ELSE resp'.status = 404 /\ tables' = tables
       /\ (IsRequest /\ req'.op = "delete_order") =>
            IF req'.id \in DOMAIN orders
            THEN resp'.status = 200 /\ Removed(orders, orders', req'.id) /\ products' = products
            ELSE resp'.status = 404 /\ tables' = tables
       /\ (IsRequest /\ req'.op = "get_product" /\ req'.id \notin DOMAIN products) => resp'.status = 404
       /\ (IsRequest /\ req'.op = "get_order" /\ req'.id \notin DOMAIN orders) => resp'.status = 404
       /\ \A k \in 1..(nextProduct - 1) : k \notin DOMAIN products => k \notin DOMAIN products'
       /\ \A k \in 1..(nextOrder - 1) : k \notin DOMAIN orders => k \notin DOMAIN orders']_vars

\* A second delete of a product that was stored before was answered 404, while
\* another product is still stored.
C13_Witness ==
    /\ req.op = "delete_product"
    /\ resp.status = 404
    /\ req.id \in 1..(nextProduct - 1)
    /\ products # EmptyDict

\* C14: a delete of a stored person answers 200 and removes that person from
\* the persons table, whatever orders name it; of an id that is not stored it
\* answers 404.
C14_PersonDeletable ==
    [][(IsRequest /\ req'.op = "delete_person") =>
          IF req'.id \in DOMAIN persons
          THEN resp'.status = 200 /\ Removed(persons, persons', req'.id)
          ELSE resp'.status = 404]_vars

\* The elements of S, in the order list all has them.
Keep(all, S) == SelectSeq(all, LAMBDA e : e \in S)

\* The snapshot a list request starts from, by the request's name.
Snapshot(op) ==
    CASE op = "list_products" -> ValuesOf(products, KeyOrder(DOMAIN products))
      [] op = "list_orders" -> ValuesOf(orders, KeyOrder(DOMAIN orders))
      [] op = "list_addresses" -> ValuesOf(addresses, addressKeys)
      [] op = "list_persons" -> ValuesOf(persons, KeyOrder(DOMAIN persons))

\* What the list request op returns for one filter f of value v alone.
Alone(op, f, v) ==
    CASE op = "list_products" -> ListProductsResult(f :> v)
      [] op = "list_orders" -> ListOrdersResult(f :> v)

ListOps == {"list_products", "list_orders", "list_addresses", "list_persons"}

\* C15: list_products and list_orders with two or more filters return the
\* entities that each of the filters alone returns, and no others.
C15_FiltersIntersect ==
    [][(/\ IsRequest
        /\ req'.op \in {"list_products", "list_orders"}
        /\ Cardinality(DOMAIN req'.body) >= 2)
       => resp'.arg = Keep(Snapshot(req'.op),
                           {e \in Range(Snapshot(req'.op)) :
                              \A f \in DOMAIN req'.body : e \in Range(Alone(req'.op, f, req'.body[f]))})]_vars

\* A list_products with two filters returned a product, and fewer products
\* than one of its filters alone returns.
C15_Witness ==
    /\ req.op = "list_products"
    /\ Cardinality(DOMAIN req.body) >= 2
    /\ Len(resp.arg) >= 1
    /\ \E f \in DOMAIN req.body : Len(Alone("list_products", f, req.body[f])) > Len(resp.arg)

\* C16: a list request answers 200 with entities of the table snapshot, in
\* snapshot order and each at most once; with no filter it returns the whole
\* snapshot, and with filters that match nothing the empty list.
C16_ListIsSubsequence ==
    [][(IsRequest /\ req'.op \in ListOps)
       => /\ resp'.status = 200
          /\ Range(resp'.arg) \subseteq Range(Snapshot(req'.op))
          /\ resp'.arg = Keep(Snapshot(req'.op), Range(resp'.arg))
          /\ DOMAIN req'.body = {} => resp'.arg = Snapshot(req'.op)]_vars

\* A list_addresses returned two addresses, the one of the larger id first, as
\* the table took them.
C16_Witness ==
    /\ req.op = "list_addresses"
    /\ Len(resp.arg) = 2
    /\ resp.arg[1].id > resp.arg[2].id

\* C17: the category filter of list_products and the city filter of
\* list_addresses and list_persons return every entity whose value equals the
\* filter value up to letter case.
C17_CaseInsensitive ==
    [][/\ (IsRequest /\ req'.op = "list_products" /\ DOMAIN req'.body = {"category"})
            => \A p \in DOMAIN products :
                 Lower(products[p].category) = Lower(req'.body.category)
                     => products[p] \in Range(resp'.arg)
       /\ (IsRequest /\ req'.op = "list_addresses" /\ DOMAIN req'.body = {"city"})
            => \A a \in DOMAIN addresses :
                 Lower(addresses[a].city) = Lower(req'.body.city)
                     => addresses[a] \in Range(resp'.arg)
       /\ (IsRequest /\ req'.op = "list_persons" /\ DOMAIN req'.body = {"city"})
            => \A p \in DOMAIN persons :
                 (\E i \in 1..Len(persons[p].addresses) :
                      Lower(persons[p].addresses[i].city) = Lower(req'.body.city))
                     => persons[p] \in Range(resp'.arg)]_vars

\* C19: get and list requests change no table; a get of a stored id returns
\* the stored entity, the one the create returned when the get follows it, and
\* the one the get before it returned when no write came between.
C19_ReadsArePure ==
    [][/\ (IsRequest /\ req'.op \in ListOps \cup {"get_product", "get_order"}) => tables' = tables
       /\ (IsRequest /\ req'.op = "get_product" /\ req'.id \in DOMAIN products)
            => resp'.status = 200 /\ resp'.arg = products[req'.id]
       /\ (IsRequest /\ req'.op = "get_order" /\ req'.id \in DOMAIN orders)
            => resp'.status = 200 /\ resp'.arg = orders[req'.id]
       /\ (/\ IsRequest
           /\ req.op \in {"create_product", "create_order"} /\ resp.status = 201
           /\ req'.op = (IF req.op = "create_product" THEN "get_product" ELSE "get_order")
           /\ req'.id = resp.id)
            => resp'.arg = resp.arg
       /\ (/\ IsRequest
           /\ req'.op \in {"get_product", "get_order"}
           /\ req.op = req'.op /\ req.id = req'.id)
            => resp' = resp]_vars

\* A get returned an order that this run created, as it is stored.
C19_Witness ==
    /\ req.op = "get_order"
    /\ resp.status = 200
    /\ resp.arg = orders[req.id]
    /\ resp.arg.id = req.id

\* C18: create_address with an id that is a key of the addresses table answers
\* 400 and leaves the table as it was; with an id that is not a key it stores
\* the address under that id and leaves the other addresses as they were.
C18_AddressIdOnce ==
    [][(IsRequest /\ req'.op = "create_address") =>
          IF req'.body.id \in DOMAIN addresses
          THEN resp'.status = 400 /\ addresses' = addresses /\ addressKeys' = addressKeys
          ELSE /\ resp'.status = 201
               /\ DOMAIN addresses' = DOMAIN addresses \cup {req'.body.id}
               /\ addresses'[req'.body.id].id = req'.body.id
               /\ addresses'[req'.body.id].street = req'.body.street
               /\ addresses'[req'.body.id].city = req'.body.city
               /\ \A a \in DOMAIN addresses : addresses'[a] = addresses[a]]_vars

\* A create_address for a stored id was refused, and the stored address still
\* has a city the payload did not carry.
C18_Witness ==
    /\ req.op = "create_address"
    /\ resp.status = 400
    /\ addresses[req.body.id].city # req.body.city

\* C20: every stored order has at least one item; a create_order with an empty
\* item list is refused and stores nothing, and an update_order leaves the
\* items of every stored order as they were.
C20_OrderHasItems ==
    /\ [](\A o \in DOMAIN orders : Len(orders[o].items) >= 1)
    /\ [][/\ (IsRequest /\ req'.op = "create_order" /\ Len(req'.body.items) = 0)
               => resp'.status \notin {200, 201} /\ orders' = orders
          /\ (IsRequest /\ req'.op = "update_order")
               => \A o \in DOMAIN orders \cap DOMAIN orders' : orders'[o].items = orders[o].items]_vars

\* An order without items was refused for that alone: its number was free and
\* its customer stored.
C20_Witness ==
    /\ req.op = "create_order"
    /\ Len(req.body.items) = 0
    /\ resp.status = 422
    /\ req.body.customer_id \in DOMAIN persons
    /\ ~OrderNumberTaken(req.body.order_number)

\* C21: a create of a Unit or of a Skill is either accepted with a 201 or
\* refused as a duplicate with a 400, and it is refused when it has the
\* (name, race) of the Unit, or the name of the Skill, accepted just before.
C21_UnitSkillUnique ==
    [][/\ (IsRequest /\ req'.op \in {"create_unit", "create_skill"})
            => resp'.status \in {201, 400}
       /\ (IsRequest /\ req'.op \in {"create_unit", "create_skill"}
             /\ req.op = req'.op /\ req.body = req'.body /\ resp.status = 201)
            => resp'.status = 400]_vars

\* Item i of the order names no stored product, or more than its stock.
ItemFails(order, i) ==
    \/ order.items[i].product_id \notin DOMAIN products
    \/ products[order.items[i].product_id].stock_quantity < order.items[i].quantity

\* C22: a refused create_order reports the first failing check in the order:
\* duplicate order_number, unknown customer, then the items in the caller's
\* order, and for one item the unknown product before the insufficient stock.
C22_FirstErrorWins ==
    [][(IsRequest /\ req'.op = "create_order" /\ resp'.status = 400) =>
         LET order == req'.body IN
         IF \E o \in DOMAIN orders : orders[o].order_number = order.order_number
         THEN resp'.msg = "Order with this order number already exists"
         ELSE IF order.customer_id \notin DOMAIN persons
         THEN resp'.msg = "Customer not found"
         ELSE \E i \in 1..Len(order.items) :
                /\ ItemFails(order, i)
                /\ \A j \in 1..(i - 1) : ~ItemFails(order, j)
                /\ resp'.id = order.items[i].product_id
                /\ resp'.msg = (IF order.items[i].product_id \notin DOMAIN products
                                THEN "Product not found"
                                ELSE "Insufficient stock for product")]_vars

\* The first item asks for more than the stock, the second names an unknown
\* product, and the answer is the first item's insufficient stock.
C22_Witness ==
    /\ req.op = "create_order"
    /\ resp.status = 400
    /\ Len(req.body.items) = 2
    /\ req.body.items[1].product_id \in DOMAIN products
    /\ products[req.body.items[1].product_id].stock_quantity < req.body.items[1].quantity
    /\ req.body.items[2].product_id \notin DOMAIN products
    /\ resp.msg = "Insufficient stock for product"
    /\ resp.id = req.body.items[1].product_id

Passes(t, op) ==
    threads[t].pc = "idle" /\ threads'[t].pc = "store" /\ threads'[t].op = op
Stores(t, op) ==
    threads[t].pc = "store" /\ threads[t].op = op /\ threads'[t].pc = "idle"

\* C24: a create_order passes its checks by the tables as they are at the
\* check, whatever orders other threads are about to store; once past them it
\* stores its order and answers 201, whatever was stored since; and the
\* products, their stock_quantity included, are the same afterward.
C24_ConcurrentOrdersOversell ==
    [][\A t \in Threads :
         /\ Passes(t, "create_order") => Admissible(threads'[t].body) /\ orders' = orders
         /\ Stores(t, "create_order") =>
              /\ resp'.status = 201
              /\ StoredNew(threads[t].body)
              /\ products' = products]_vars

\* Both threads passed the stock check while no order was stored, both stored
\* their order of the same product, and the two quantities exceed its stock.
C24_Witness ==
    /\ \A t \in Threads :
         threads[t].pc = "idle" /\ threads[t].op = "create_order" /\ threads[t].seen = 0
    /\ resp.status = 201
    /\ Cardinality(DOMAIN orders) = 2
    /\ \E a, b \in DOMAIN orders :
         /\ a # b
         /\ orders[a].items[1].product_id = orders[b].items[1].product_id
         /\ orders[a].items[1].quantity + orders[b].items[1].quantity
              > products[orders[a].items[1].product_id].stock_quantity
         /\ products[orders[a].items[1].product_id].stock_quantity = MaxStock

\* The create, get, update and delete requests on products and orders.
EntityOps ==
    {"create_product", "get_product", "update_product", "delete_product",
     "create_order", "get_order", "update_order", "delete_order"}

\* C25: every create, get, update and delete request on products and orders
\* whose payload passes validation is answered with a success or with a 400 or
\* 404 error, a patch that sets a field to null included.
C25_NoUnhandledFailure ==
    [][(IsRequest /\ req'.op \in EntityOps /\ resp'.status # 422)
         => resp'.status \in {200, 201, 400, 404}]_vars

\* What create_order looks at in a payload.
AdmissionKey(order) ==
    [order_number |-> order.order_number,
     customer_id |-> order.customer_id,
     items |-> [i \in 1..Len(order.items) |->
                  [product_id |-> order.items[i].product_id, quantity |-> order.items[i].quantity]]]

\* The fields of a payload that create_order does not look at.
TrustedOrderFields ==
    {"customer_name", "customer_email", "subtotal", "tax_amount", "shipping_amount", "total_amount"}
TrustedItemFields == {"product_name", "unit_price", "subtotal"}

\* C26: create_order accepts a payload exactly when its order_number,
\* customer_id and items' (product_id, quantity) pass the checks against the
\* tables, and so does it every payload that differs from it in customer_name,
\* customer_email, product_name, unit_price, a subtotal, tax, shipping or
\* total alone; and an accepted order is stored with those fields as the
\* payload gave them.
C26_AdmissionIgnoresTrusted ==
    [][(IsRequest /\ req'.op = "create_order" /\ resp'.status # 422) =>
         /\ \A other \in TrustedVariants(req'.body) :
              /\ AdmissionKey(other) = AdmissionKey(req'.body)
              /\ resp'.status = 201 <=> Admissible(other)
         /\ resp'.status \in {201, 400}
         /\ resp'.status = 201 =>
              /\ resp'.id \in DOMAIN orders' \ DOMAIN orders
              /\ \A f \in TrustedOrderFields : orders'[resp'.id][f] = req'.body[f]
              /\ \A i \in 1..Len(req'.body.items), f \in TrustedItemFields :
                   orders'[resp'.id].items[i][f] = req'.body.items[i][f]]_vars

\* A payload that names its product as the caller liked, not as the product
\* is stored, was accepted and is stored with the caller's name for it.
C26_Witness ==
    /\ req.op = "create_order" /\ resp.status = 201
    /\ req.body.items[1].product_name = "iPad"
    /\ products[req.body.items[1].product_id].name # "iPad"
    /\ resp.id \in DOMAIN orders
    /\ orders[resp.id].items[1].product_name = "iPad"

\* C27: the customer_id of every stored order is a key of persons; no request
\* removes a key of persons; and no request changes the customer_id of a
\* stored order.
C27_CustomerExists ==
    /\ [](\A o \in DOMAIN orders : orders[o].customer_id \in DOMAIN persons)
    /\ [][/\ DOMAIN persons \subseteq DOMAIN persons'
          /\ \A o \in DOMAIN orders \cap DOMAIN orders' :
               orders'[o].customer_id = orders[o].customer_id]_vars

\* An order was stored and patched, and the request to delete its customer was
\* then refused: the customer is still stored and still the order's.
C27_Witness ==
    /\ req.op = "delete_person" /\ resp.status = 405
    /\ req.id \in DOMAIN persons
    /\ \E o \in DOMAIN orders :
         orders[o].customer_id = req.id /\ orders[o].status = "shipped"

\* The quantities of all the lines of an order of one or two items.
TotalQuantity(items) ==
    IF Len(items) = 2 THEN items[1].quantity + items[2].quantity ELSE items[1].quantity

\* C28: a create_order with a fresh number and a stored customer whose lines
\* name the same stored product more than once is accepted, and the stock
\* left as it was, whenever each line's quantity is at most the product's
\* stock_quantity, whatever the lines add up to.
C28_StockPerLine ==
    [][(/\ IsRequest /\ req'.op = "create_order"
        /\ Len(req'.body.items) = 2
        /\ req'.body.items[1].product_id = req'.body.items[2].product_id
        /\ req'.body.items[1].product_id \in DOMAIN products
        /\ \A i \in 1..2 :
             req'.body.items[i].quantity <= products[req'.body.items[1].product_id].stock_quantity
        /\ req'.body.customer_id \in DOMAIN persons
        /\ ~OrderNumberTaken(req'.body.order_number))
       => /\ resp'.status = 201
          /\ StoredNew(req'.body)
          /\ products' = products]_vars

\* An order was accepted whose two lines name one product and together ask
\* for more than its stock.
C28_Witness ==
    /\ req.op = "create_order" /\ resp.status = 201
    /\ Len(req.body.items) = 2
    /\ req.body.items[1].product_id = req.body.items[2].product_id
    /\ TotalQuantity(req.body.items) > products[req.body.items[1].product_id].stock_quantity
    /\ \E o \in DOMAIN orders : orders[o].items = req.body.items

\* C29: a delete_product answered 200 leaves no stored product with the
\* deleted product's sku, and a delete_order answered 200 no stored order with
\* the deleted order's number; a create_product with a sku no stored product
\* has is accepted, and so are an update_product to a sku no other stored
\* product has and a create_order, valid otherwise, with a number no stored
\* order has: products and orders that were deleted do not count.
C29_DeleteFreesKey ==
    [][IsRequest =>
         /\ (req'.op = "delete_product" /\ resp'.status = 200) =>
              \A q \in DOMAIN products' : products'[q].sku # products[req'.id].sku
         /\ (req'.op = "delete_order" /\ resp'.status = 200) =>
              \A o \in DOMAIN orders' : orders'[o].order_number # orders[req'.id].order_number
         /\ (/\ req'.op = "create_product"
             /\ \A q \in DOMAIN products : products[q].sku # req'.body.sku) =>
              /\ resp'.status = 201
              /\ resp'.id \in DOMAIN products' \ DOMAIN products
              /\ products'[resp'.id].sku = req'.body.sku
         /\ (/\ req'.op = "update_product"
             /\ req'.id \in DOMAIN products
             /\ "sku" \in DOMAIN req'.body.vals
             /\ req'.body.nulls \cap ProductRequired = {}
             /\ \A q \in DOMAIN products \ {req'.id} : products[q].sku # req'.body.vals.sku) =>
              /\ resp'.status = 200
              /\ products'[req'.id].sku = req'.body.vals.sku
         /\ (req'.op = "create_order" /\ Admissible(req'.body)) =>
              resp'.status = 201 /\ StoredNew(req'.body)]_vars

\* The first product, stored with SKU-1, was deleted; the second now has
\* SKU-1, by its create or by the update that was just accepted.
C29_Witness ==
    /\ steps = 3
    /\ 1 \notin DOMAIN products
    /\ 2 \in DOMAIN products /\ products[2].sku = "SKU-1"
    /\ req.op = "update_product" /\ req.id = 2 /\ resp.status = 200
    /\ "sku" \in DOMAIN req.body.vals /\ req.body.vals.sku = "SKU-1"

\* C30: under every interleaving of the steps of two threads, no two stored
\* products have the same sku and no two stored orders the same order_number.
C30_UniqueUnderInterleaving ==
    [](/\ \A p \in DOMAIN products : \A q \in DOMAIN products \ {p} :
            products[q].sku # products[p].sku
       /\ \A o \in DOMAIN orders : \A n \in DOMAIN orders \ {o} :
            orders[n].order_number # orders[o].order_number)

====
